---- MODULE Spec2Model ----
(***************************************************************************)
(* Collision bookkeeping of RigidBodyComponentSystem: the per-step diff    *)
(* between the collision record (collisions) and the contacts seen in the  *)
(* current step (frameCollisions), and the events it fires.                *)
(*                                                                         *)
(* Entities are identified with their guid.  A physics body is identified  *)
(* with the entity it belongs to; NoEntity is a body whose `entity` field  *)
(* is null.  Event listeners are the sets of event names a component (or   *)
(* the system) has handlers for, as seen through hasEvent().               *)
(***************************************************************************)
EXTENDS Integers, Sequences, FiniteSets, TLC

\* ---------------------------------------------------------------- bounds
\* Longest manifold array the dispatcher reports in one step.
MaxManifolds == 2
\* Largest getNumContacts() of one manifold.
MaxContacts == 2
\* Most collision objects one ray test reports.
MaxHits == 3

\* ------------------------------------------------------------- universe
Entities == {1, 2, 3}
\* wb0.entity / wb1.entity is null
NoEntity == 0
\* the bodies that live in the dynamics world of the stepping specification
Bodies == {1, 2, NoEntity}

VARIABLES
    collisions,        \* this.collisions: guid -> [others, entity]
    frameCollisions,   \* this.frameCollisions: guid -> [others, entity]
    manifolds,         \* the dispatcher's manifold array
    trigger,           \* entity.trigger is set
    noResponse,        \* the entity's body carries BODYFLAG_NORESPONSE_OBJECT
    hasCollision,      \* entity.collision is set
    hasRigidbody,      \* entity.rigidbody is set
    listeners,         \* entity -> [collision, rigidbody]: names with handlers
    systemListeners,   \* names the system itself has handlers for
    fired,             \* events fired by the last run of a handler, in order
    prevCollisions,    \* collisions when the last handler run started
    prevFrameCollisions, \* frameCollisions when the last handler run started
    prevContactPairs,  \* pairs with contacts in the check before the last one
    lastContactPairs,  \* pairs with contacts in the last check
    phase,             \* "simulating" | "checked" | "storing" | "stored" | "cleaned"
    call,              \* the last direct call of a helper: [entity, other, ret]
    ammoDefined,       \* typeof Ammo !== 'undefined'
    tickApi,           \* the dynamics world exposes setInternalTickCallback
    libraryLoaded,     \* onLibraryLoaded has run
    dynamicsWorld,     \* this.dynamicsWorld has been created
    tickCallback,      \* the function registered as internal tick callback
    warned,            \* Debug.warn has been issued
    updateBound,       \* onUpdate is bound to the systems' 'update' event
    pc,                \* "idle" | "stepSimulation" (inside the library call)
    updateDt,          \* the dt of the current or last onUpdate
    stepCalls,         \* arguments of the stepSimulation calls of that onUpdate
    subSteps,          \* internal ticks the library has run in that call
    checks,            \* _checkForCollisions runs of that onUpdate, by caller
    maxSubSteps,       \* this.maxSubSteps
    fixedTimeStep,     \* this.fixedTimeStep, as <<numerator, denominator>>
    rayHits,           \* what the ray test of the world reports, in its order
    rayResults,        \* the array the last raycastAll returned
    nativeCalls,       \* native objects created and destroyed by the last query
    queryPc,           \* "idle" | "returned": a world query has returned
    shapeArgs,         \* the shape, position and rotation a shape test is given
    shapeCalls,        \* the calls the last shape test made, itself first
    shapeRet,          \* what the last shape test returned
    renderAction,      \* the fields of a RenderAction
    prevRenderAction,  \* renderAction when its last method call started
    layerComposition,  \* the LayerComposition: layerList, subLayerEnabled
    prevLayerComposition, \* layerComposition when the last call started
    castShadows,       \* light.castShadows of every directional light
    lightArgs,         \* cameraLayers and dirLights given to the collection
    destroyed,         \* the destroy() calls made on GPU resources, in order
    renderCall         \* the last RenderAction method call: [op, ret, nth]

config == <<trigger, noResponse, hasCollision, hasRigidbody, listeners,
            systemListeners>>

record == <<collisions, frameCollisions, fired, prevCollisions,
            prevFrameCollisions, prevContactPairs, lastContactPairs, phase>>

library == <<ammoDefined, tickApi, libraryLoaded, dynamicsWorld, tickCallback,
             warned, updateBound, maxSubSteps, fixedTimeStep>>

update == <<pc, updateDt, stepCalls, subSteps, checks>>

queries == <<rayHits, rayResults, nativeCalls, queryPc, shapeArgs, shapeCalls,
             shapeRet>>

rendering == <<renderAction, prevRenderAction, layerComposition,
               prevLayerComposition, castShadows, lightArgs, destroyed,
               renderCall>>

vars == <<record, manifolds, config, call, library, update, queries,
          rendering>>

\* ------------------------------------------------------------- helpers
\* Array.prototype.indexOf(x) >= 0
Contains(seq, x) == \E i \in 1..Len(seq) : seq[i] = x

\* obj[key] = value
Put(obj, key, value) ==
    [k \in (DOMAIN obj) \cup {key} |-> IF k = key THEN value ELSE obj[k]]

\* delete obj[key]
Delete(obj, key) == [k \in (DOMAIN obj) \ {key} |-> obj[k]]

\* faulty variant: nothing is removed
SpliceKeep(seq, i) == seq

\* array.splice(i, 1)
Splice(seq, i) == SubSeq(seq, 1, i - 1) \o SubSeq(seq, i + 1, Len(seq))

EmptyObject == [k \in {} |-> <<>>]

NoListeners == [collision |-> {}, rigidbody |-> {}]

\* one fired event: component.fire(name, ...) or system.fire(name, ...)
Event(comp, target, name, other, contacts) ==
    [comp |-> comp, target |-> target, name |-> name, other |-> other,
     contacts |-> contacts]

Fire(st, ev) == [st EXCEPT !.fired = Append(@, ev)]

\* ------------------------------------------------------ _storeCollision
\* A handler's working state is the record
\*   [collisions, frameCollisions, fired, newCollision]:
\* the two maps, the events fired so far and the local `newCollision`.
\* faulty variant: every stored pair counts as new
IsNewCollisionAlways(others, other) == TRUE

IsNewCollision(others, other) == ~Contains(others, other)

\* this.collisions[guid] || { others: [], entity: entity }
EntryOrNew(obj, guid, entity) ==
    IF guid \in DOMAIN obj THEN obj[guid] ELSE [others |-> <<>>, entity |-> entity]

\* push `other` unless the entry already lists it
PushIfNew(entry, other) ==
    IF IsNewCollision(entry.others, other)
    THEN [entry EXCEPT !.others = Append(@, other)]
    ELSE entry

\* faulty variant: the frame entry is created but `other` is not pushed
PushFrameSkip(entry, other) == entry

\* frameCollisions[guid].others.push(other)
PushFrame(entry, other) == [entry EXCEPT !.others = Append(@, other)]

\* the value _storeCollision(entity, other) returns
StoreCollisionResult(colls, entity, other) ==
    IsNewCollision(EntryOrNew(colls, entity, entity).others, other)

\* the maps after _storeCollision(entity, other)
StoreCollision(st, entity, other) ==
    [st EXCEPT
        !.collisions =
            Put(@, entity, PushIfNew(EntryOrNew(@, entity, entity), other)),
        !.frameCollisions =
            Put(@, entity, PushFrame(EntryOrNew(@, entity, entity), other))]

\* newCollision = this._storeCollision(entity, other)
StoreNew(st, entity, other) ==
    [StoreCollision(st, entity, other) EXCEPT
        !.newCollision = StoreCollisionResult(st.collisions, entity, other)]

\* if (cond) target.fire(...)
FireWhen(cond, st, ev) == IF cond THEN Fire(st, ev) ELSE st

\* -------------------------------------------------------- contact points
\* manifold.getContactPoint(j): the five vectors and the impulse of the j-th
\* native contact point, kept as distinguishable tokens.
BtContactPoint(j) ==
    [localPointA |-> <<"localPointA", j>>,
     localPointB |-> <<"localPointB", j>>,
     positionWorldOnA |-> <<"positionWorldOnA", j>>,
     positionWorldOnB |-> <<"positionWorldOnB", j>>,
     normalWorldOnB |-> <<"normalWorldOnB", j>>,
     appliedImpulse |-> <<"appliedImpulse", j>>]

CreateContactPointFromAmmo(contactPoint) ==
    [localPoint |-> contactPoint.localPointA,
     localPointOther |-> contactPoint.localPointB,
     point |-> contactPoint.positionWorldOnA,
     pointOther |-> contactPoint.positionWorldOnB,
     normal |-> contactPoint.normalWorldOnB,
     impulse |-> contactPoint.appliedImpulse]

\* faulty variant: the reverse point is built like the forward one
CreateContactPointUnswapped(contactPoint) ==
    CreateContactPointFromAmmo(contactPoint)

CreateReverseContactPointFromAmmo(contactPoint) ==
    [localPointOther |-> contactPoint.localPointA,
     localPoint |-> contactPoint.localPointB,
     pointOther |-> contactPoint.positionWorldOnA,
     point |-> contactPoint.positionWorldOnB,
     normal |-> contactPoint.normalWorldOnB,
     impulse |-> contactPoint.appliedImpulse]

\* --------------------------------------------------------- hasEvent tests
HasEvent(names, name) == name \in names

\* _hasContactEvent(entity)
HasContactEvent(entity) ==
    IF hasCollision[entity]
       /\ (\/ HasEvent(listeners[entity].collision, "collisionstart")
           \/ HasEvent(listeners[entity].collision, "collisionend")
           \/ HasEvent(listeners[entity].collision, "contact"))
    THEN TRUE
    ELSE hasRigidbody[entity]
         /\ (\/ HasEvent(listeners[entity].rigidbody, "collisionstart")
             \/ HasEvent(listeners[entity].rigidbody, "collisionend")
             \/ HasEvent(listeners[entity].rigidbody, "contact"))

\* e.collision && (e.collision.hasEvent('triggerenter') || ...('triggerleave'))
CollisionTriggerEvents(entity) ==
    hasCollision[entity]
    /\ (\/ HasEvent(listeners[entity].collision, "triggerenter")
        \/ HasEvent(listeners[entity].collision, "triggerleave"))

\* e.rigidbody && (e.rigidbody.hasEvent('triggerenter') || ...('triggerleave'))
RigidbodyTriggerEvents(entity) ==
    hasRigidbody[entity]
    /\ (\/ HasEvent(listeners[entity].rigidbody, "triggerenter")
        \/ HasEvent(listeners[entity].rigidbody, "triggerleave"))

\* this.hasEvent('contact')
GlobalEvents == HasEvent(systemListeners, "contact")

\* faulty variant: the trigger flag is never seen
NoResponseObjectNever(entity) == FALSE

\* flags & BODYFLAG_NORESPONSE_OBJECT
NoResponseObject(entity) == noResponse[entity]

\* ---------------------------------- _checkForCollisions: trigger branch
\* The manifold has contacts and one of the bodies is trigger-flagged.
\* newCollision is one local shared by the four blocks; it starts undefined.

\* if (newCollision && !suppressed) component.fire('triggerenter', other)
TriggerEnter(st, comp, entity, other, suppressed) ==
    FireWhen(st.newCollision /\ ~suppressed, st,
             Event(comp, entity, "triggerenter", other, <<>>))

\* if (e0Events) { ... }
TriggerCollision0(st, e0, e1) ==
    IF CollisionTriggerEvents(e0)
    THEN TriggerEnter(StoreNew(st, e0, e1), "collision", e0, e1,
                      NoResponseObject(e1))
    ELSE st

\* if (e1Events) { ... }
TriggerCollision1(st, e0, e1) ==
    IF CollisionTriggerEvents(e1)
    THEN TriggerEnter(StoreNew(st, e1, e0), "collision", e1, e0,
                      NoResponseObject(e0))
    ELSE st

\* if (!newCollision) newCollision = this._storeCollision(entity, other)
StoreUnlessNew(st, entity, other) ==
    IF ~st.newCollision THEN StoreNew(st, entity, other) ELSE st

\* if (e0BodyEvents) { ... }
TriggerBody0(st, e0, e1) ==
    IF RigidbodyTriggerEvents(e0)
    THEN TriggerEnter(StoreUnlessNew(st, e1, e0), "rigidbody", e0, e1, FALSE)
    ELSE st

\* if (e1BodyEvents) { ... }
TriggerBody1(st, e0, e1) ==
    IF RigidbodyTriggerEvents(e1)
    THEN TriggerEnter(StoreUnlessNew(st, e0, e1), "rigidbody", e1, e0, FALSE)
    ELSE st

TriggerContact(st, e0, e1) ==
    TriggerBody1(
        TriggerBody0(
            TriggerCollision1(
                TriggerCollision0([st EXCEPT !.newCollision = FALSE], e0, e1),
                e0, e1),
            e0, e1),
        e0, e1)

\* ---------------------------------- _checkForCollisions: contact branch
\* the j loop: one system-level 'contact' per contact point
RECURSIVE FireGlobalContacts(_, _, _, _, _)
FireGlobalContacts(st, e0, e1, numContacts, j) ==
    IF j > numContacts
    THEN st
    ELSE FireGlobalContacts(
             Fire(st, Event("system", e0, "contact", e1,
                            <<CreateContactPointFromAmmo(BtContactPoint(j))>>)),
             e0, e1, numContacts, j + 1)

\* the fires of the `if (e0Events) { ... }` block, after its _storeCollision
EntityContactEvents(st, entity, other, result) ==
    FireWhen(hasRigidbody[entity] /\ st.newCollision,
        FireWhen(hasRigidbody[entity],
            FireWhen(hasCollision[entity] /\ st.newCollision,
                FireWhen(hasCollision[entity], st,
                    Event("collision", entity, "contact", other, result)),
                Event("collision", entity, "collisionstart", other, result)),
            Event("rigidbody", entity, "contact", other, result)),
        Event("rigidbody", entity, "collisionstart", other, result))

\* the `if (e0Events) { ... }` block, and its twin for e1
EntityContact(st, entity, other, contacts) ==
    EntityContactEvents(StoreNew(st, entity, other), entity, other, contacts)

\* forwardContacts after the j loop
ForwardContacts(numContacts) ==
    [j \in 1..numContacts |-> CreateContactPointFromAmmo(BtContactPoint(j))]

\* reverseContacts after the j loop
ReverseContacts(numContacts) ==
    [j \in 1..numContacts |-> CreateReverseContactPointFromAmmo(BtContactPoint(j))]

\* faulty variant: one system-level 'contact' per manifold
ContactGlobalOnce(st, e0, e1, numContacts) ==
    IF GlobalEvents THEN FireGlobalContacts(st, e0, e1, 1, 1) ELSE st

ContactGlobal(st, e0, e1, numContacts) ==
    IF GlobalEvents THEN FireGlobalContacts(st, e0, e1, numContacts, 1) ELSE st

ContactEntity0(st, e0, e1, numContacts) ==
    IF HasContactEvent(e0)
    THEN EntityContact(st, e0, e1, ForwardContacts(numContacts))
    ELSE st

ContactEntity1(st, e0, e1, numContacts) ==
    IF HasContactEvent(e1)
    THEN EntityContact(st, e1, e0, ReverseContacts(numContacts))
    ELSE st

\* The manifold has contacts and neither body is trigger-flagged.
Contact(st, e0, e1, numContacts) ==
    IF GlobalEvents \/ HasContactEvent(e0) \/ HasContactEvent(e1)
    THEN ContactEntity1(
             ContactEntity0(
                 ContactGlobal([st EXCEPT !.newCollision = FALSE],
                               e0, e1, numContacts),
                 e0, e1, numContacts),
             e0, e1, numContacts)
    ELSE st

\* the body of the loop over the manifolds
ProcessManifold(st, manifold) ==
    IF manifold.body0 = NoEntity \/ manifold.body1 = NoEntity
    THEN st
    ELSE IF manifold.numContacts > 0
         THEN IF NoResponseObject(manifold.body0) \/ NoResponseObject(manifold.body1)
              THEN TriggerContact(st, manifold.body0, manifold.body1)
              ELSE Contact(st, manifold.body0, manifold.body1, manifold.numContacts)
         ELSE st

RECURSIVE ManifoldLoop(_, _, _)
ManifoldLoop(st, ms, i) ==
    IF i > Len(ms)
    THEN st
    ELSE ManifoldLoop(ProcessManifold(st, ms[i]), ms, i + 1)

\* ---------------------------------------------------- _cleanOldCollisions
\* faulty variant: every recorded pair counts as ended
NotInFrameAlways(st, guid, other) == TRUE

\* !frameCollision || frameCollision.others.indexOf(other) < 0
NotInFrame(st, guid, other) ==
    \/ guid \notin DOMAIN st.frameCollisions
    \/ ~Contains(st.frameCollisions[guid].others, other)

\* faulty variant: every ended pair is reported as the end of a collision
FireEndCollision(st, entity, other) ==
    FireWhen(hasCollision[entity],
        FireWhen(hasRigidbody[entity], st,
            Event("rigidbody", entity, "collisionend", other, <<>>)),
        Event("collision", entity, "collisionend", other, <<>>))

\* the events of one ended pair
FireEnd(st, entity, other) ==
    IF trigger[entity]
    THEN FireWhen(hasRigidbody[other],
             FireWhen(hasCollision[entity], st,
                 Event("collision", entity, "triggerleave", other, <<>>)),
             Event("rigidbody", other, "triggerleave", entity, <<>>))
    ELSE IF ~trigger[other]
         THEN FireWhen(hasCollision[entity],
                  FireWhen(hasRigidbody[entity], st,
                      Event("rigidbody", entity, "collisionend", other, <<>>)),
                  Event("collision", entity, "collisionend", other, <<>>))
         ELSE st

\* others.splice(i, 1) and the events that follow it
RemoveOther(st, guid, i) ==
    FireEnd([st EXCEPT !.collisions[guid].others = Splice(@, i)],
            st.collisions[guid].entity, st.collisions[guid].others[i])

\* while (i--) { ... } over collisions[guid].others, from the last index down
RECURSIVE CleanOthers(_, _, _)
CleanOthers(st, guid, i) ==
    IF i = 0
    THEN st
    ELSE IF NotInFrame(st, guid, st.collisions[guid].others[i])
         THEN CleanOthers(RemoveOther(st, guid, i), guid, i - 1)
         ELSE CleanOthers(st, guid, i - 1)

\* if (others.length === 0) delete this.collisions[guid]
DeleteIfEmpty(st, guid) ==
    IF Len(st.collisions[guid].others) = 0
    THEN [st EXCEPT !.collisions = Delete(@, guid)]
    ELSE st

\* one pass of the `for (const guid in this.collisions)` body
CleanGuid(st, guid) ==
    DeleteIfEmpty(CleanOthers(st, guid, Len(st.collisions[guid].others)), guid)

\* the smallest guid still to visit
NextGuid(todo) == CHOOSE g \in todo : \A h \in todo : g <= h

\* The guids are visited in ascending order; each pass reads and writes only
\* its own entry, so the order decides nothing but the order of the events.
RECURSIVE CleanGuids(_, _)
CleanGuids(st, todo) ==
    IF todo = {}
    THEN st
    ELSE CleanGuids(CleanGuid(st, NextGuid(todo)), todo \ {NextGuid(todo)})

CleanOldCollisions(st) == CleanGuids(st, DOMAIN st.collisions)

\* ---------------------------------------------------- _checkForCollisions
\* faulty variant: the frame map is not emptied
ResetFrameCollisionsKeep(frame) == frame

\* this.frameCollisions = {}
ResetFrameCollisions(frame) == EmptyObject

\* The handler from `this.frameCollisions = {}` to its return, run on the
\* maps `colls` and `frame` and the manifold array `ms`; `fired` collects
\* its events.
CheckForCollisionsResult(colls, frame, ms) ==
    CleanOldCollisions(
        ManifoldLoop([collisions |-> colls,
                      frameCollisions |-> ResetFrameCollisions(frame),
                      fired |-> <<>>,
                      newCollision |-> FALSE],
                     ms, 1))

\* the unordered entity pairs that have a manifold with contacts
ContactPairs(ms) ==
    {{ms[i].body0, ms[i].body1} :
        i \in {k \in 1..Len(ms) : /\ ms[k].numContacts > 0
                                  /\ ms[k].body0 # NoEntity
                                  /\ ms[k].body1 # NoEntity}}

\* ------------------------------------------------------------ the world
\* A manifold of a body without entity is skipped before its contacts are
\* read; it is given the full number of contact points.
Manifolds ==
    {m \in [body0 : Bodies, body1 : Bodies, numContacts : 0..MaxContacts] :
        /\ m.body0 # m.body1
        /\ (m.body0 = NoEntity \/ m.body1 = NoEntity) => m.numContacts = MaxContacts}

\* ------------------------------------------------------------- entities
RigidBodyEntity(l) ==
    [trigger |-> FALSE, noResponse |-> FALSE, hasCollision |-> TRUE,
     hasRigidbody |-> TRUE, listeners |-> l]

TriggerEntity(l) ==
    [trigger |-> TRUE, noResponse |-> TRUE, hasCollision |-> TRUE,
     hasRigidbody |-> FALSE, listeners |-> l]

\* a rigid body whose collision component has been removed
RigidbodyOnlyEntity ==
    [trigger |-> FALSE, noResponse |-> FALSE, hasCollision |-> FALSE,
     hasRigidbody |-> TRUE, listeners |-> NoListeners]

BareEntity ==
    [trigger |-> FALSE, noResponse |-> FALSE, hasCollision |-> FALSE,
     hasRigidbody |-> FALSE, listeners |-> NoListeners]

\* rigid bodies that listen for contact events on one component, or not at all
ContactSetups ==
    {RigidBodyEntity(l) :
        l \in {NoListeners,
               [collision |-> {"collisionstart"}, rigidbody |-> {}],
               [collision |-> {}, rigidbody |-> {"contact"}]}}

\* a trigger volume, and the rigid body that enters it
TriggerSetups ==
    {TriggerEntity([collision |-> c, rigidbody |-> {}]) :
        c \in {{}, {"triggerenter"}}}

VisitorSetups ==
    {RigidBodyEntity([collision |-> c, rigidbody |-> r]) :
        c \in {{}, {"triggerleave"}, {"collisionstart"}},
        r \in {{}, {"triggerenter"}}}

WorldSetups ==
    {<<s1, s2, BareEntity, sys>> :
        s1 \in ContactSetups, s2 \in ContactSetups, sys \in {{}, {"contact"}}}
    \cup
    {<<s1, s2, BareEntity, {}>> : s1 \in TriggerSetups, s2 \in VisitorSetups}

InitConfig(setup) ==
    /\ trigger = [e \in Entities |-> setup[e].trigger]
    /\ noResponse = [e \in Entities |-> setup[e].noResponse]
    /\ hasCollision = [e \in Entities |-> setup[e].hasCollision]
    /\ hasRigidbody = [e \in Entities |-> setup[e].hasRigidbody]
    /\ listeners = [e \in Entities |-> setup[e].listeners]
    /\ systemListeners = setup[4]

\* the constructor: this.collisions = {}; this.frameCollisions = {}
InitRecord ==
    /\ collisions = EmptyObject
    /\ frameCollisions = EmptyObject
    /\ fired = <<>>
    /\ prevCollisions = EmptyObject
    /\ prevFrameCollisions = EmptyObject
    /\ prevContactPairs = {}
    /\ lastContactPairs = {}

NoCall == [entity |-> NoEntity, other |-> NoEntity, ret |-> FALSE]

\* JavaScript values, compared with === : equal type and equal value
JsNumber(n) == [t |-> "number", v |-> n]

\* a string of digits, kept by the number it spells
JsDigits(n) == [t |-> "string", v |-> n]

JsUndefined == [t |-> "undefined", v |-> 0]

StrictEquals(a, b) == a.t = b.t /\ a.v = b.v

NoShape == [type |-> "box", axis |-> JsUndefined]

\* no shape test has been made
InitShapeQueries ==
    /\ shapeArgs = [shape |-> NoShape, position |-> "position0",
                    rotation |-> "rotation0"]
    /\ shapeCalls = <<>>
    /\ shapeRet = <<>>

\* directional lights of the scene
Lights == {1, 2, 3}

\* the render action after its constructor
NewRenderAction ==
    [layerIndex |-> 0, layer |-> "null", cameraIndex |-> 0, camera |-> "null",
     renderTarget |-> "null", lightClusters |-> "null",
     clearColor |-> FALSE, clearDepth |-> FALSE, clearStencil |-> FALSE,
     triggerPostprocess |-> FALSE, firstCameraUse |-> FALSE,
     lastCameraUse |-> FALSE,
     directionalLightsSet |-> {}, directionalLights |-> <<>>,
     viewBindGroups |-> <<>>]

\* a render action the layer composition has filled in for the second layer
UsedRenderAction ==
    [NewRenderAction EXCEPT
        !.layerIndex = 1, !.layer = "layer1", !.cameraIndex = 1,
        !.camera = "camera1", !.renderTarget = "renderTarget",
        !.lightClusters = "worldClusters", !.clearColor = TRUE,
        !.clearStencil = TRUE, !.triggerPostprocess = TRUE,
        !.lastCameraUse = TRUE]

\* no method of the render action has been called
NoRenderCall ==
    [op |-> "none", ret |-> FALSE, nth |-> 0, destroyedBefore |-> 0]

\* a composition of two layers
NoComposition ==
    [layerList |-> <<[enabled |-> TRUE], [enabled |-> TRUE]>>,
     subLayerEnabled |-> <<TRUE, TRUE>>]

NoLightArgs == [cameraLayers |-> <<>>, dirLights |-> <<>>]

\* no render action is in use
InitRendering ==
    /\ renderAction = NewRenderAction
    /\ prevRenderAction = NewRenderAction
    /\ layerComposition = NoComposition
    /\ prevLayerComposition = NoComposition
    /\ castShadows = [l \in Lights |-> FALSE]
    /\ lightArgs = NoLightArgs
    /\ destroyed = <<>>
    /\ renderCall = NoRenderCall

\* no world query has been made
InitQueries ==
    /\ rayHits = <<>>
    /\ rayResults = <<>>
    /\ nativeCalls = <<>>
    /\ queryPc = "idle"
    /\ InitShapeQueries

NoChecks == [callback |-> 0, direct |-> 0]

\* maxSubSteps = 10
DefaultMaxSubSteps == 10
\* fixedTimeStep = 1 / 60
DefaultFixedTimeStep == <<1, 60>>

InitFields ==
    /\ maxSubSteps = DefaultMaxSubSteps
    /\ fixedTimeStep = DefaultFixedTimeStep

InitUpdate ==
    /\ pc = "idle"
    /\ updateDt = <<0, 1>>
    /\ stepCalls = <<>>
    /\ subSteps = 0
    /\ checks = NoChecks

\* the system after onLibraryLoaded, with the tick callback registered
InitLoaded ==
    /\ ammoDefined = TRUE
    /\ tickApi = TRUE
    /\ libraryLoaded = TRUE
    /\ dynamicsWorld = TRUE
    /\ tickCallback = "_checkForCollisions"
    /\ warned = FALSE
    /\ updateBound = TRUE
    /\ InitFields
    /\ InitUpdate

Init ==
    /\ \E setup \in WorldSetups : InitConfig(setup)
    /\ InitRecord
    /\ InitLoaded
    /\ manifolds = <<>>
    /\ phase = "simulating"
    /\ call = NoCall
    /\ InitRendering
    /\ InitQueries

\* -------------------------------------------------------------- actions
\* what is known of the last handler run is dropped when the world moves on
ForgetRun ==
    /\ phase' = "simulating"
    /\ fired' = <<>>
    /\ prevCollisions' = collisions
    /\ prevFrameCollisions' = frameCollisions
    /\ prevContactPairs' = {}
    /\ UNCHANGED <<collisions, frameCollisions, lastContactPairs>>

\* The library's collision detection adds a manifold to the dispatcher.
AddManifold(m) ==
    /\ Len(manifolds) < MaxManifolds
    /\ manifolds' = Append(manifolds, m)
    /\ ForgetRun
    /\ UNCHANGED <<config, rendering, queries, call, library, update>>

\* The library releases a manifold.
RemoveManifold(i) ==
    /\ i \in 1..Len(manifolds)
    /\ manifolds' = Splice(manifolds, i)
    /\ ForgetRun
    /\ UNCHANGED <<config, rendering, queries, call, library, update>>

\* the effect of one run of _checkForCollisions(world, timeStep)
RunCheckForCollisions(st) ==
    /\ collisions' = st.collisions
    /\ frameCollisions' = st.frameCollisions
    /\ fired' = st.fired
    /\ prevCollisions' = collisions
    /\ prevFrameCollisions' = frameCollisions
    /\ prevContactPairs' = lastContactPairs
    /\ lastContactPairs' = ContactPairs(manifolds)
    /\ phase' = "checked"

\* _checkForCollisions(world, timeStep), called by the library's internal tick
CheckForCollisions ==
    /\ RunCheckForCollisions(
           CheckForCollisionsResult(collisions, frameCollisions, manifolds))
    /\ UNCHANGED <<manifolds, config, rendering, queries, call, library, update>>

Next ==
    \/ \E m \in Manifolds : AddManifold(m)
    \/ \E i \in 1..MaxManifolds : RemoveManifold(i)
    \/ CheckForCollisions

Spec == Init /\ [][Next]_vars

\* ------------------------------------------- the helpers, called alone
\* arrays without repeated elements over S, as _storeCollision builds them
DistinctSeqs(S) ==
    {l \in UNION {[1..n -> S] : n \in 1..Cardinality(S)} :
        \A i \in DOMAIN l : \A j \in DOMAIN l : i # j => l[i] # l[j]}

\* the values this.collisions can hold: every entry is keyed by the guid of
\* its entity and lists other entities, none of them twice, and at least one
RecordMaps ==
    UNION {{f \in [D -> [others : DistinctSeqs(Entities), entity : Entities]] :
               \A g \in D : /\ f[g].entity = g
                            /\ ~Contains(f[g].others, g)} :
           D \in SUBSET Entities}

\* the values this.frameCollisions can hold after the manifold loop: what it
\* lists has been stored in this.collisions by the same _storeCollision calls
FrameMaps(colls) ==
    {f \in RecordMaps :
        /\ DOMAIN f \subseteq DOMAIN colls
        /\ \A g \in DOMAIN f : \A i \in DOMAIN f[g].others :
               Contains(colls[g].others, f[g].others[i])}

\* the entities of a world with at most one trigger volume
RecordSetups ==
    {<<s1, s2, s3, {}>> :
        s1 \in {TriggerEntity(NoListeners), RigidBodyEntity(NoListeners)},
        s2 \in {RigidBodyEntity(NoListeners), RigidbodyOnlyEntity},
        s3 \in {RigidBodyEntity(NoListeners), BareEntity}}

\* the system between the manifold loop and _cleanOldCollisions
InitStoring ==
    /\ collisions \in RecordMaps
    /\ frameCollisions \in FrameMaps(collisions)
    /\ fired = <<>>
    /\ prevCollisions = EmptyObject
    /\ prevFrameCollisions = EmptyObject
    /\ prevContactPairs = {}
    /\ lastContactPairs = {}
    /\ InitLoaded
    /\ manifolds = <<>>
    /\ phase = "storing"
    /\ call = NoCall
    /\ InitRendering
    /\ InitQueries

InitStore ==
    /\ InitConfig(<<RigidBodyEntity(NoListeners), RigidBodyEntity(NoListeners),
                    RigidBodyEntity(NoListeners), {}>>)
    /\ InitStoring

InitClean ==
    /\ \E setup \in RecordSetups : InitConfig(setup)
    /\ InitStoring

WorkingState ==
    [collisions |-> collisions, frameCollisions |-> frameCollisions,
     fired |-> <<>>, newCollision |-> FALSE]

\* _storeCollision(entity, other)
StoreCollisionCall(entity, other) ==
    /\ phase = "storing"
    /\ collisions' = StoreCollision(WorkingState, entity, other).collisions
    /\ frameCollisions' =
           StoreCollision(WorkingState, entity, other).frameCollisions
    /\ call' = [entity |-> entity, other |-> other,
                ret |-> StoreCollisionResult(collisions, entity, other)]
    /\ prevCollisions' = collisions
    /\ prevFrameCollisions' = frameCollisions
    /\ phase' = "stored"
    /\ UNCHANGED <<fired, prevContactPairs, lastContactPairs, manifolds,
                   config, rendering, queries, library, update>>

NextStore ==
    \E entity \in Entities : \E other \in Entities \ {entity} :
        StoreCollisionCall(entity, other)

SpecStore == InitStore /\ [][NextStore]_vars

\* _cleanOldCollisions()
CleanOldCollisionsCall ==
    /\ phase = "storing"
    /\ collisions' = CleanOldCollisions(WorkingState).collisions
    /\ fired' = CleanOldCollisions(WorkingState).fired
    /\ prevCollisions' = collisions
    /\ prevFrameCollisions' = frameCollisions
    /\ phase' = "cleaned"
    /\ UNCHANGED <<frameCollisions, prevContactPairs, lastContactPairs,
                   manifolds, config, rendering, queries, call, library, update>>

NextClean == CleanOldCollisionsCall

SpecClean == InitClean /\ [][NextClean]_vars

\* ------------------------------------------ onLibraryLoaded and onUpdate
\* dt of a frame, as <<numerator, denominator>>
DtValues == {<<1, 60>>, <<1, 30>>}

\* two rigid bodies that listen, under a system that listens
UpdateSetup ==
    <<RigidBodyEntity([collision |-> {"collisionstart"}, rigidbody |-> {}]),
      RigidBodyEntity([collision |-> {}, rigidbody |-> {"contact"}]),
      BareEntity, {"contact"}>>

\* the system after its constructor, before the library has loaded
InitUpdateSpec ==
    /\ InitConfig(UpdateSetup)
    /\ InitRecord
    /\ ammoDefined \in BOOLEAN
    /\ tickApi \in BOOLEAN
    /\ libraryLoaded = FALSE
    /\ dynamicsWorld = FALSE
    /\ tickCallback = "none"
    /\ warned = FALSE
    /\ updateBound = FALSE
    /\ InitFields
    /\ InitUpdate
    /\ manifolds \in {<<>>, <<[body0 |-> 1, body1 |-> 2, numContacts |-> 1]>>}
    /\ phase = "simulating"
    /\ call = NoCall
    /\ InitRendering
    /\ InitQueries

\* if (this.dynamicsWorld.setInternalTickCallback)
HasSetInternalTickCallback == tickApi

\* onLibraryLoaded()
OnLibraryLoaded ==
    /\ ~libraryLoaded
    /\ libraryLoaded' = TRUE
    /\ dynamicsWorld' = ammoDefined
    /\ tickCallback' = IF ammoDefined /\ HasSetInternalTickCallback
                       THEN "_checkForCollisions"
                       ELSE tickCallback
    /\ warned' = (ammoDefined /\ ~HasSetInternalTickCallback)
    /\ updateBound' = ammoDefined
    /\ UNCHANGED <<ammoDefined, tickApi, maxSubSteps, fixedTimeStep, record,
                   manifolds, config, rendering, queries, call, update>>

\* faulty variant: the sub-step limit is not passed on
StepSimulationArgsUnbounded(dt) ==
    [dt |-> dt, maxSubSteps |-> maxSubSteps + 1, fixedTimeStep |-> fixedTimeStep]

\* the arguments of this.dynamicsWorld.stepSimulation(...)
StepSimulationArgs(dt) ==
    [dt |-> dt, maxSubSteps |-> maxSubSteps, fixedTimeStep |-> fixedTimeStep]

\* onUpdate(dt), from its entry into the call of stepSimulation
OnUpdate(dt) ==
    /\ updateBound
    /\ pc = "idle"
    /\ pc' = "stepSimulation"
    /\ updateDt' = dt
    /\ stepCalls' = <<StepSimulationArgs(dt)>>
    /\ subSteps' = 0
    /\ checks' = NoChecks
    /\ UNCHANGED <<record, manifolds, config, rendering, queries, call, library>>

\* One internal tick of the library inside stepSimulation: it runs at most
\* the requested number of sub-steps and calls the registered callback
\* after each of them.
InternalTick ==
    /\ pc = "stepSimulation"
    /\ subSteps < stepCalls[1].maxSubSteps
    /\ subSteps' = subSteps + 1
    /\ IF tickCallback = "_checkForCollisions"
       THEN /\ RunCheckForCollisions(
                   CheckForCollisionsResult(collisions, frameCollisions,
                                            manifolds))
            /\ checks' = [checks EXCEPT !.callback = @ + 1]
       ELSE UNCHANGED <<record, checks>>
    /\ UNCHANGED <<pc, updateDt, stepCalls, manifolds, config, rendering,
                   queries, call,
                   library>>

\* faulty variant: onUpdate checks for collisions whatever the library offers
DirectCheckAlways == TRUE

\* if (!this.dynamicsWorld.setInternalTickCallback)
DirectCheck == ~HasSetInternalTickCallback

\* onUpdate(dt), from the return of stepSimulation to its own return
OnUpdateReturn ==
    /\ pc = "stepSimulation"
    /\ pc' = "idle"
    /\ IF DirectCheck
       THEN /\ RunCheckForCollisions(
                   CheckForCollisionsResult(collisions, frameCollisions,
                                            manifolds))
            /\ checks' = [checks EXCEPT !.direct = @ + 1]
       ELSE UNCHANGED <<record, checks>>
    /\ UNCHANGED <<updateDt, stepCalls, subSteps, manifolds, config,
                   rendering, queries, call,
                   library>>

NextUpdate ==
    \/ OnLibraryLoaded
    \/ \E dt \in DtValues : OnUpdate(dt)
    \/ InternalTick
    \/ OnUpdateReturn

SpecUpdate == InitUpdateSpec /\ [][NextUpdate]_vars

\* --------------------------------- a trigger volume among rigid bodies
\* Entity 1 is a trigger volume, entities 2 and 3 are rigid bodies; all of
\* them, and the system, listen for contact events, so that only the branch
\* taken decides which events are fired.
TriggerWorldSetups ==
    {<<TriggerEntity([collision |-> c1, rigidbody |-> {}]),
       RigidBodyEntity(l2),
       RigidBodyEntity([collision |-> {"contact"}, rigidbody |-> {}]),
       {"contact"}>> :
        c1 \in {{"contact", "triggerenter"}, {"collisionend"}},
        l2 \in {[collision |-> {"contact"}, rigidbody |-> {"triggerenter"}],
                [collision |-> {"collisionstart", "triggerleave"},
                 rigidbody |-> {}]}}

\* manifolds between the trigger volume and a rigid body, or between the
\* two rigid bodies, with no contact point or one
TriggerWorldManifolds ==
    {[body0 |-> p[1], body1 |-> p[2], numContacts |-> n] :
        p \in {<<1, 2>>, <<2, 1>>, <<1, 3>>, <<2, 3>>}, n \in {0, 1}}

InitTriggerWorld ==
    /\ \E setup \in TriggerWorldSetups : InitConfig(setup)
    /\ InitRecord
    /\ InitLoaded
    /\ manifolds = <<>>
    /\ phase = "simulating"
    /\ call = NoCall
    /\ InitRendering
    /\ InitQueries

NextTriggerWorld ==
    \/ \E m \in TriggerWorldManifolds : AddManifold(m)
    \/ \E i \in 1..MaxManifolds : RemoveManifold(i)
    \/ CheckForCollisions

SpecTriggerWorld == InitTriggerWorld /\ [][NextTriggerWorld]_vars

\* ------------------------------------------------------------ raycastAll
\* One hit of the ray test: the entity of the body hit (NoEntity when the
\* body has none).  Ammo.castObject wraps the collision object's pointer, so
\* every hit yields a body, as _checkForCollisions relies on too.
RayHits ==
    UNION {[1..n -> [entity : Entities \cup {NoEntity}]] : n \in 0..MaxHits}

\* rayCallback.hasHit()
HasHit(hits) == Len(hits) > 0

\* new RaycastResult(body.entity, new Vec3(point...), new Vec3(normal...))
\* from collisionObjs.at(i), points.at(i) and normals.at(i)
RaycastResult(hits, i) ==
    [entity |-> hits[i].entity,
     point |-> <<"m_hitPointWorld", i>>,
     normal |-> <<"m_hitNormalWorld", i>>]

\* faulty variant: only the first hit is kept, as raycastFirst does
RayLoopFirstOnly(hits) == <<RaycastResult(hits, 1)>>

\* for (let i = 0; i < numHits; i++) { ... results.push(result) }
\* (`if (body)` holds for every hit: the cast gives a wrapper object)
RayLoop(hits) == [i \in 1..Len(hits) |-> RaycastResult(hits, i)]

\* the array raycastAll returns
RaycastAllResults(hits) == IF HasHit(hits) THEN RayLoop(hits) ELSE <<>>

InitRaycast ==
    /\ InitConfig(<<RigidBodyEntity(NoListeners), RigidBodyEntity(NoListeners),
                    RigidBodyEntity(NoListeners), {}>>)
    /\ InitRecord
    /\ InitLoaded
    /\ manifolds = <<>>
    /\ phase = "simulating"
    /\ call = NoCall
    /\ InitRendering
    /\ rayHits \in RayHits
    /\ rayResults = <<>>
    /\ nativeCalls = <<>>
    /\ queryPc = "idle"
    /\ InitShapeQueries

\* raycastAll(start, end)
RaycastAll ==
    /\ queryPc = "idle"
    /\ rayResults' = RaycastAllResults(rayHits)
    /\ nativeCalls' = <<"new AllHitsRayResultCallback", "rayTest",
                        "destroy rayCallback">>
    /\ queryPc' = "returned"
    /\ UNCHANGED <<rayHits, shapeArgs, shapeCalls, shapeRet, record, manifolds,
                   config, rendering, call, library, update>>

NextRaycast == RaycastAll

SpecRaycast == InitRaycast /\ [][NextRaycast]_vars

\* ------------------------------------------------------------- shapeTest
\* shape.type: the five known names, a name the switch does not list, and
\* "undefined" for a shape without type
ShapeTypes ==
    {"capsule", "cone", "cylinder", "sphere", "box", "mesh", "undefined"}

\* shape.axis, or the axis argument of a direct call
Axes ==
    {JsNumber(0), JsNumber(1), JsNumber(2), JsNumber(3), JsDigits(0),
     JsUndefined}

Positions == {"position0", "position1"}

\* a Vec3 of Euler angles, or a Quat
Rotations == {"rotation0", "quat1"}

\* one call of a test: the method, the arguments that describe the shape,
\* the position and rotation it was given, and what it returned
ShapeCall(fn, args, position, rotation, ret) ==
    [fn |-> fn, args |-> args, position |-> position, rotation |-> rotation,
     ret |-> ret]

\* the array _shapeTest returns: what contactTest reports for the native
\* shape at that transform
ContactTestResults(native, position, rotation) ==
    <<"results", native, position, rotation>>

\* _shapeTest(new Ammo[fn](...), position, rotation)
InnerShapeTest(native, position, rotation) ==
    <<ShapeCall("_shapeTest", native, position, rotation,
                ContactTestResults(native, position, rotation))>>

\* a test that builds `native` and returns what _shapeTest returns
NativeTest(fn, args, native, position, rotation) ==
    <<ShapeCall(fn, args, position, rotation,
                ContactTestResults(native, position, rotation))>>
        \o InnerShapeTest(native, position, rotation)

\* let fn = 'btCapsuleShape'; if (axis === 0) ... else if (axis === 2) ...
CapsuleFn(axis) ==
    IF StrictEquals(axis, JsNumber(0)) THEN "btCapsuleShapeX"
    ELSE IF StrictEquals(axis, JsNumber(2)) THEN "btCapsuleShapeZ"
    ELSE "btCapsuleShape"

\* faulty variant: the axis is ignored
ConeFnDefault(axis) == "btConeShape"

ConeFn(axis) ==
    IF StrictEquals(axis, JsNumber(0)) THEN "btConeShapeX"
    ELSE IF StrictEquals(axis, JsNumber(2)) THEN "btConeShapeZ"
    ELSE "btConeShape"

CylinderFn(axis) ==
    IF StrictEquals(axis, JsNumber(0)) THEN "btCylinderShapeX"
    ELSE IF StrictEquals(axis, JsNumber(2)) THEN "btCylinderShapeZ"
    ELSE "btCylinderShape"

\* capsuleTest(radius, height, axis, position, rotation)
CapsuleTestCalls(axis, position, rotation) ==
    NativeTest("capsuleTest", <<"radius", "height", axis>>,
               <<CapsuleFn(axis), "radius", "height">>, position, rotation)

\* coneTest(radius, height, axis, position, rotation)
ConeTestCalls(axis, position, rotation) ==
    NativeTest("coneTest", <<"radius", "height", axis>>,
               <<ConeFn(axis), "radius", "height">>, position, rotation)

\* cylinderTest(radius, height, axis, position, rotation)
CylinderTestCalls(axis, position, rotation) ==
    NativeTest("cylinderTest", <<"radius", "height", axis>>,
               <<CylinderFn(axis), "radius", "height">>, position, rotation)

\* sphereTest(radius, position, rotation)
SphereTestCalls(position, rotation) ==
    NativeTest("sphereTest", <<"radius">>, <<"btSphereShape", "radius">>,
               position, rotation)

\* boxTest(halfExtents, position, rotation)
BoxTestCalls(position, rotation) ==
    NativeTest("boxTest", <<"halfExtents">>, <<"btBoxShape", "halfExtents">>,
               position, rotation)

\* faulty variant: 'sphere' is not among the cases
ShapeTestDispatchNoSphere(shape, position, rotation) ==
    IF shape.type = "capsule" THEN CapsuleTestCalls(shape.axis, position, rotation)
    ELSE IF shape.type = "cone" THEN ConeTestCalls(shape.axis, position, rotation)
    ELSE IF shape.type = "cylinder"
         THEN CylinderTestCalls(shape.axis, position, rotation)
    ELSE BoxTestCalls(position, rotation)

\* switch (shape.type) { ... }
ShapeTestDispatch(shape, position, rotation) ==
    IF shape.type = "capsule" THEN CapsuleTestCalls(shape.axis, position, rotation)
    ELSE IF shape.type = "cone" THEN ConeTestCalls(shape.axis, position, rotation)
    ELSE IF shape.type = "cylinder"
         THEN CylinderTestCalls(shape.axis, position, rotation)
    ELSE IF shape.type = "sphere" THEN SphereTestCalls(position, rotation)
    ELSE BoxTestCalls(position, rotation)

\* the calls of shapeTest(shape, position, rotation), itself first; it
\* returns what the test it called returned
ShapeTestCalls(shape, position, rotation) ==
    <<ShapeCall("shapeTest", <<shape>>, position, rotation,
                ShapeTestDispatch(shape, position, rotation)[1].ret)>>
        \o ShapeTestDispatch(shape, position, rotation)

InitShapeTest ==
    /\ InitConfig(<<RigidBodyEntity(NoListeners), RigidBodyEntity(NoListeners),
                    RigidBodyEntity(NoListeners), {}>>)
    /\ InitRecord
    /\ InitLoaded
    /\ manifolds = <<>>
    /\ phase = "simulating"
    /\ call = NoCall
    /\ InitRendering
    /\ rayHits = <<>>
    /\ rayResults = <<>>
    /\ nativeCalls = <<>>
    /\ queryPc = "idle"
    /\ shapeArgs \in [shape : [type : ShapeTypes, axis : Axes],
                      position : Positions, rotation : Rotations]
    /\ shapeCalls = <<>>
    /\ shapeRet = <<>>

\* a shape test has made `calls` and returned
ShapeTestReturns(calls) ==
    /\ shapeCalls' = calls
    /\ shapeRet' = calls[1].ret
    /\ queryPc' = "returned"
    /\ UNCHANGED <<shapeArgs, rayHits, rayResults, nativeCalls, record,
                   manifolds, config, rendering, call, library, update>>

\* shapeTest(shape, position, rotation)
ShapeTest ==
    /\ queryPc = "idle"
    /\ ShapeTestReturns(ShapeTestCalls(shapeArgs.shape, shapeArgs.position,
                                       shapeArgs.rotation))

\* capsuleTest(radius, height, axis, position, rotation), called directly
CapsuleTest ==
    /\ queryPc = "idle"
    /\ ShapeTestReturns(CapsuleTestCalls(shapeArgs.shape.axis, shapeArgs.position,
                                         shapeArgs.rotation))

\* coneTest(radius, height, axis, position, rotation), called directly
ConeTest ==
    /\ queryPc = "idle"
    /\ ShapeTestReturns(ConeTestCalls(shapeArgs.shape.axis, shapeArgs.position,
                                      shapeArgs.rotation))

\* cylinderTest(radius, height, axis, position, rotation), called directly
CylinderTest ==
    /\ queryPc = "idle"
    /\ ShapeTestReturns(CylinderTestCalls(shapeArgs.shape.axis, shapeArgs.position,
                                          shapeArgs.rotation))

NextShapeTest ==
    \/ ShapeTest
    \/ CapsuleTest
    \/ ConeTest
    \/ CylinderTest

SpecShapeTest == InitShapeTest /\ [][NextShapeTest]_vars

\* ---------------------------------------------------------- RenderAction
\* bind groups of the views; bind group b owns the uniform buffer b
BindGroups == {1, 2}

\* this.directionalLightsSet.has(light)
HasLight(set, light) == light \in set

\* faulty variant: a light is taken once per layer that has it
NotCollectedAlways(st, light) == TRUE

\* !this.directionalLightsSet.has(light)
NotCollected(st, light) == ~HasLight(st.directionalLightsSet, light)

\* directionalLightsSet.add(light); directionalLights.push(light)
AddLight(st, light) ==
    [st EXCEPT !.directionalLightsSet = @ \cup {light},
               !.directionalLights = Append(@, light)]

\* the body of the loop over cameraLayers, for one light
CollectFromLayer(st, light, lightsSet) ==
    IF HasLight(lightsSet, light) /\ NotCollected(st, light)
    THEN AddLight(st, light)
    ELSE st

\* for (let l = 0; l < cameraLayers.length; l++) { ... }
RECURSIVE CollectFromLayers(_, _, _, _)
CollectFromLayers(st, light, cameraLayers, l) ==
    IF l > Len(cameraLayers)
    THEN st
    ELSE CollectFromLayers(CollectFromLayer(st, light, cameraLayers[l]),
                           light, cameraLayers, l + 1)

\* for (let i = 0; i < dirLights.length; i++) { ... }
RECURSIVE CollectLights(_, _, _, _)
CollectLights(st, cameraLayers, dirLights, i) ==
    IF i > Len(dirLights)
    THEN st
    ELSE IF castShadows[dirLights[i]]
         THEN CollectLights(
                  CollectFromLayers(st, dirLights[i], cameraLayers, 1),
                  cameraLayers, dirLights, i + 1)
         ELSE CollectLights(st, cameraLayers, dirLights, i + 1)

\* directionalLightsSet.clear(); directionalLights.length = 0
ClearLights(st) ==
    [st EXCEPT !.directionalLightsSet = {}, !.directionalLights = <<>>]

\* the render action after collectDirectionalLights(cameraLayers, dirLights)
CollectDirectionalLightsResult(st, cameraLayers, dirLights) ==
    CollectLights(ClearLights(st), cameraLayers, dirLights, 1)

\* get hasDirectionalShadowLights()
HasDirectionalShadowLights(st) == Len(st.directionalLights) > 0

\* the _lightsSet of a layer
LightsSets == {{}, {1, 2}, {2, 3}, {3}}

\* cameraLayers: no layer, one, or two
CameraLayers == UNION {[1..n -> LightsSets] : n \in 0..2}

\* dirLights: the directional lights of the scene, each at most once
DirLights == {<<>>} \cup DistinctSeqs(Lights)

\* light.castShadows of the three lights
CastShadows ==
    {[l \in Lights |-> TRUE], [l \in Lights |-> FALSE],
     [l \in Lights |-> l # 1], [l \in Lights |-> l = 2]}

\* the lights a render action holds from an earlier collection
WithLights(st, lights) ==
    [st EXCEPT !.directionalLights = lights,
               !.directionalLightsSet = {lights[i] : i \in DOMAIN lights}]

\* how often `op` has now been called in a row, counted up to two
NthCall(op) ==
    IF renderCall.op = op THEN 2 ELSE 1

InitPhysicsIdle ==
    /\ InitConfig(<<RigidBodyEntity(NoListeners), RigidBodyEntity(NoListeners),
                    RigidBodyEntity(NoListeners), {}>>)
    /\ InitRecord
    /\ InitLoaded
    /\ manifolds = <<>>
    /\ phase = "simulating"
    /\ call = NoCall
    /\ InitQueries

InitRenderLights ==
    /\ InitPhysicsIdle
    /\ renderAction \in {WithLights(UsedRenderAction, lights) :
                            lights \in {<<>>, <<3>>, <<2, 1>>}}
    /\ prevRenderAction = renderAction
    /\ layerComposition = NoComposition
    /\ prevLayerComposition = NoComposition
    /\ castShadows \in CastShadows
    /\ lightArgs \in [cameraLayers : CameraLayers, dirLights : DirLights]
    /\ destroyed = <<>>
    /\ renderCall = NoRenderCall

\* collectDirectionalLights(cameraLayers, dirLights, allLights), called
\* with the same arguments each time
CollectDirectionalLights ==
    /\ renderCall.nth < 2
    /\ renderAction' = CollectDirectionalLightsResult(
                           renderAction, lightArgs.cameraLayers,
                           lightArgs.dirLights)
    /\ prevRenderAction' = renderAction
    /\ renderCall' = [op |-> "collectDirectionalLights", ret |-> FALSE,
                      nth |-> NthCall("collectDirectionalLights"),
                      destroyedBefore |-> Len(destroyed)]
    /\ UNCHANGED <<layerComposition, prevLayerComposition, castShadows,
                   lightArgs, destroyed, record, manifolds, config, queries,
                   call, library, update>>

NextRenderLights == CollectDirectionalLights

SpecRenderLights == InitRenderLights /\ [][NextRenderLights]_vars

\* a && b of JavaScript: a when a is falsy, b otherwise
JsAnd(a, b) == IF a THEN b ELSE a

\* faulty variant: the sublayer flag is not looked at
IsLayerEnabledResultLayerOnly(st, composition) ==
    composition.layerList[st.layerIndex + 1].enabled

\* what isLayerEnabled(layerComposition) returns; layerIndex counts from
\* 0, the sequences of the model from 1
IsLayerEnabledResult(st, composition) ==
    JsAnd(composition.layerList[st.layerIndex + 1].enabled,
          composition.subLayerEnabled[st.layerIndex + 1])

\* faulty variant: the light list is left as it is
ResetResultKeepList(st) ==
    [st EXCEPT !.lightClusters = "null", !.directionalLightsSet = {}]

\* the render action after reset()
ResetResult(st) ==
    [st EXCEPT !.lightClusters = "null",
               !.directionalLightsSet = {},
               !.directionalLights = <<>>]

\* one destroy() call on a GPU resource
DestroyCall(kind, bg) == [kind |-> kind, of |-> bg]

\* bg.defaultUniformBuffer.destroy(); bg.destroy()
DestroyBindGroup(bg) ==
    <<DestroyCall("defaultUniformBuffer", bg), DestroyCall("bindGroup", bg)>>

\* this.viewBindGroups.forEach(...)
RECURSIVE DestroyCalls(_, _)
DestroyCalls(viewBindGroups, i) ==
    IF i > Len(viewBindGroups)
    THEN <<>>
    ELSE DestroyBindGroup(viewBindGroups[i])
            \o DestroyCalls(viewBindGroups, i + 1)

\* faulty variant: the bind groups stay in the array
ClearViewBindGroupsKeep(st) == st

\* this.viewBindGroups.length = 0
ClearViewBindGroups(st) == [st EXCEPT !.viewBindGroups = <<>>]

\* the bind groups of the views: none, one, or two in either order
ViewBindGroups == {<<>>} \cup DistinctSeqs(BindGroups)

\* layerList and subLayerEnabled of a composition of two layers
LayerCompositions ==
    {[layerList |-> <<[enabled |-> e[1]], [enabled |-> e[2]]>>,
      subLayerEnabled |-> <<sub[1], sub[2]>>] :
        e \in [1..2 -> BOOLEAN], sub \in [1..2 -> BOOLEAN]}

\* a render action in use: fresh or filled in, with or without lights
\* and bind groups
RenderActions ==
    {[WithLights(base, lights) EXCEPT !.viewBindGroups = groups] :
        base \in {NewRenderAction, UsedRenderAction},
        lights \in {<<>>, <<1>>, <<2, 1>>},
        groups \in ViewBindGroups}

InitRenderAction ==
    /\ InitPhysicsIdle
    /\ renderAction \in RenderActions
    /\ prevRenderAction = renderAction
    /\ layerComposition \in LayerCompositions
    /\ prevLayerComposition = layerComposition
    /\ castShadows = [l \in Lights |-> TRUE]
    /\ lightArgs = NoLightArgs
    /\ destroyed = <<>>
    /\ renderCall = NoRenderCall

\* what every call of a method records
RenderCallMade(op, ret) ==
    /\ renderCall' = [op |-> op, ret |-> ret, nth |-> NthCall(op),
                      destroyedBefore |-> Len(destroyed)]
    /\ prevRenderAction' = renderAction
    /\ prevLayerComposition' = layerComposition
    /\ UNCHANGED <<castShadows, lightArgs, record, manifolds, config,
                   queries, call, library, update>>

\* isLayerEnabled(layerComposition)
IsLayerEnabled ==
    /\ renderCall.op # "isLayerEnabled" \/ renderCall.nth < 2
    /\ RenderCallMade("isLayerEnabled",
                      IsLayerEnabledResult(renderAction, layerComposition))
    /\ UNCHANGED <<renderAction, layerComposition, destroyed>>

\* reset()
Reset ==
    /\ renderCall.op # "reset" \/ renderCall.nth < 2
    /\ renderAction' = ResetResult(renderAction)
    /\ RenderCallMade("reset", FALSE)
    /\ UNCHANGED <<layerComposition, destroyed>>

\* destroy()
Destroy ==
    /\ renderCall.op # "destroy" \/ renderCall.nth < 2
    /\ destroyed' = destroyed \o DestroyCalls(renderAction.viewBindGroups, 1)
    /\ renderAction' = ClearViewBindGroups(renderAction)
    /\ RenderCallMade("destroy", FALSE)
    /\ UNCHANGED layerComposition

NextRenderAction ==
    \/ IsLayerEnabled
    \/ Reset
    \/ Destroy

SpecRenderAction == InitRenderAction /\ [][NextRenderAction]_vars

\* ======================================================== properties
\* other is listed in obj[entity].others
InRecord(obj, entity, other) ==
    entity \in DOMAIN obj /\ Contains(obj[entity].others, other)

\* the entities listed in obj[guid].others
Others(obj, guid) == {obj[guid].others[i] : i \in 1..Len(obj[guid].others)}

\* how often the last run fired `name` with `other` on a component of `target`
NumFired(comp, target, name, other) ==
    Cardinality({i \in 1..Len(fired) :
        /\ fired[i].comp = comp
        /\ fired[i].target = target
        /\ fired[i].name = name
        /\ fired[i].other = other})

Received(entity, name, other) ==
    NumFired("collision", entity, name, other)
        + NumFired("rigidbody", entity, name, other) > 0

\* how often `name` is expected on a component that may be absent
Once(present) == IF present THEN 1 ELSE 0

\* manifolds with contacts between the two entities in the checked array
NumManifoldsWithContacts(e, o) ==
    Cardinality({i \in 1..Len(manifolds) :
        /\ manifolds[i].numContacts > 0
        /\ {manifolds[i].body0, manifolds[i].body1} = {e, o}})

InContact(e, o) == {e, o} \in ContactPairs(manifolds)

WasInContact(e, o) == {e, o} \in prevContactPairs

Checked == phase = "checked"

\* a manifold with contacts between e and o, neither body trigger-flagged,
\* has just been checked, and e listens for contact events
ContactCase(e, o) ==
    /\ Checked
    /\ InContact(e, o)
    /\ ~noResponse[e]
    /\ ~noResponse[o]
    /\ HasContactEvent(e)

\* C1: for a checked manifold with contacts between two bodies that are not
\* trigger-flagged, an entity e with a contact-event listener receives
\* 'collisionstart' for the other entity o in that step if and only if o was
\* absent from collisions[e].others at the end of the previous step.
C1_CollisionStartIffAbsent ==
    \A e \in Entities : \A o \in Entities \ {e} :
        ContactCase(e, o) =>
            (Received(e, "collisionstart", o) <=> ~InRecord(prevCollisions, e, o))

C1_Witness ==
    \E e \in Entities : \E o \in Entities \ {e} :
        /\ ContactCase(e, o)
        /\ ~InRecord(prevCollisions, e, o)
        /\ Received(e, "collisionstart", o)

Cleaned == phase = "cleaned"

\* C2: after _cleanOldCollisions, for non-trigger entities e and o: if o was
\* in e's record and the pair was not stored in this step, o is out of e's
\* record and 'collisionend' with o has been fired exactly once on e's
\* rigidbody component and once on e's collision component, each when
\* present; if the pair was stored in this step, o is still in e's record
\* and no 'collisionend' with o has been fired on e.
C2_CollisionEndOncePerEndedPair ==
    \A e \in Entities : \A o \in Entities \ {e} :
        (/\ Cleaned
         /\ ~trigger[e]
         /\ ~trigger[o]
         /\ InRecord(prevCollisions, e, o)) =>
            IF InRecord(frameCollisions, e, o)
            THEN /\ InRecord(collisions, e, o)
                 /\ ~Received(e, "collisionend", o)
            ELSE /\ ~InRecord(collisions, e, o)
                 /\ NumFired("rigidbody", e, "collisionend", o)
                        = Once(hasRigidbody[e])
                 /\ NumFired("collision", e, "collisionend", o)
                        = Once(hasCollision[e])

C2_Witness ==
    \E e \in Entities : \E o \in Entities \ {e} : \E k \in Entities \ {e, o} :
        /\ Cleaned
        /\ ~trigger[e] /\ ~trigger[o] /\ ~trigger[k]
        /\ hasRigidbody[e] /\ ~hasCollision[e]
        /\ InRecord(prevCollisions, e, o)
        /\ ~InRecord(frameCollisions, e, o)
        /\ NumFired("rigidbody", e, "collisionend", o) = 1
        /\ InRecord(prevCollisions, e, k)
        /\ InRecord(collisions, e, k)

TriggerEnterExpected(t, o) == IF WasInContact(t, o) THEN 0 ELSE 1

C4_TriggerEnterOncePerContact ==
    \A t \in Entities : \A o \in Entities \ {t} :
        (/\ Checked
         /\ NumManifoldsWithContacts(t, o) = 1
         /\ noResponse[t]
         /\ ~noResponse[o]) =>
            /\ CollisionTriggerEvents(t) =>
                   NumFired("collision", t, "triggerenter", o)
                       = TriggerEnterExpected(t, o)
            /\ RigidbodyTriggerEvents(o) =>
                   NumFired("rigidbody", o, "triggerenter", t)
                       = TriggerEnterExpected(t, o)

\* C5: after _cleanOldCollisions, for a trigger entity t: if o was in t's
\* record and the pair was not stored in this step, o is out of t's record,
\* 'triggerleave' has been fired exactly once on t's collision component with
\* o and exactly once on o's rigidbody component with t, each when present,
\* and no 'collisionend' has been fired for the pair on either entity.
C5_TriggerLeaveOncePerEndedPair ==
    \A t \in Entities : \A o \in Entities \ {t} :
        (/\ Cleaned
         /\ trigger[t]
         /\ InRecord(prevCollisions, t, o)
         /\ ~InRecord(frameCollisions, t, o)) =>
            /\ ~InRecord(collisions, t, o)
            /\ NumFired("collision", t, "triggerleave", o)
                   = Once(hasCollision[t])
            /\ NumFired("rigidbody", o, "triggerleave", t)
                   = Once(hasRigidbody[o])
            /\ ~Received(t, "collisionend", o)
            /\ ~Received(o, "collisionend", t)

C5_Witness ==
    \E t \in Entities : \E o \in Entities \ {t} :
        /\ Cleaned
        /\ trigger[t]
        /\ hasRigidbody[o]
        /\ InRecord(prevCollisions, t, o)
        /\ InRecord(prevCollisions, o, t)
        /\ ~InRecord(frameCollisions, t, o)
        /\ ~InRecord(frameCollisions, o, t)
        /\ NumFired("collision", t, "triggerleave", o) = 1
        /\ NumFired("rigidbody", o, "triggerleave", t) = 1

\* C6: when _checkForCollisions returns, collisions and frameCollisions have
\* the same guids, each guid lists the same set of others in both maps, no
\* entry is empty, and frameCollisions holds only pairs of this step.
C6_RecordRefreshed ==
    Checked =>
        /\ DOMAIN collisions = DOMAIN frameCollisions
        /\ \A g \in DOMAIN collisions :
               /\ Others(collisions, g) = Others(frameCollisions, g)
               /\ Others(collisions, g) # {}
               /\ \A o \in Others(frameCollisions, g) : InContact(g, o)

C6_Witness ==
    /\ Checked
    /\ DOMAIN prevFrameCollisions # {}
    /\ \E g \in DOMAIN collisions :
           /\ Len(frameCollisions[g].others) = 2
           /\ Len(collisions[g].others) = 1

\* an onUpdate has run to its return
Updated == pc = "idle" /\ stepCalls # <<>>

\* C7: once the library has loaded, _checkForCollisions is the registered
\* tick callback exactly when the world offers setInternalTickCallback, and
\* the warning has been issued exactly when it does not.  With the callback
\* onUpdate never runs the check itself; without it no check runs inside
\* stepSimulation and every onUpdate has run the check exactly once when it
\* returns.  No onUpdate has checks from both callers.
C7_OneCheckPath ==
    /\ libraryLoaded =>
           /\ (tickCallback = "_checkForCollisions") <=> (ammoDefined /\ tickApi)
           /\ warned <=> (ammoDefined /\ ~tickApi)
    /\ ~libraryLoaded => (tickCallback = "none" /\ ~updateBound)
    /\ tickApi => checks.direct = 0
    /\ ~tickApi =>
           /\ checks.callback = 0
           /\ pc = "stepSimulation" => checks.direct = 0
           /\ Updated => checks.direct = 1
    /\ ~(checks.callback > 0 /\ checks.direct > 0)

C7_Witness ==
    /\ Updated
    /\ ~tickApi
    /\ warned
    /\ subSteps > 1
    /\ checks = [callback |-> 0, direct |-> 1]
    /\ Checked

\* the other path: the callback has checked every sub-step of an onUpdate
C7_WitnessCallback ==
    /\ Updated
    /\ tickApi
    /\ subSteps > 1
    /\ checks = [callback |-> subSteps, direct |-> 0]

\* C8: an onUpdate(dt) has called stepSimulation exactly once, as soon as it
\* is inside that call and still when it has returned, with dt, maxSubSteps
\* and fixedTimeStep, which have their defaults 10 and 1/60; the library has
\* run at most maxSubSteps sub-steps in that call.
C8_StepSimulationOncePerUpdate ==
    (pc = "stepSimulation" \/ Updated) =>
        /\ Len(stepCalls) = 1
        /\ stepCalls[1] = [dt |-> updateDt,
                           maxSubSteps |-> maxSubSteps,
                           fixedTimeStep |-> fixedTimeStep]
        /\ maxSubSteps = 10
        /\ fixedTimeStep = <<1, 60>>
        /\ subSteps <= maxSubSteps

C8_Witness ==
    /\ Updated
    /\ updateDt = <<1, 30>>
    /\ Len(stepCalls) = 1
    /\ stepCalls[1].dt = <<1, 30>>
    /\ subSteps = maxSubSteps

\* C9: after _storeCollision(entity, other), the value returned is true
\* exactly when other was not in collisions[entity].others before the call,
\* other is in collisions[entity].others and in frameCollisions[entity].others,
\* and every other guid has in both maps the entry it had before, or none.
Stored == phase = "stored"

SameEntry(before, after, g) ==
    /\ g \in DOMAIN after <=> g \in DOMAIN before
    /\ g \in DOMAIN after => after[g] = before[g]

C9_StoreCollisionContract ==
    Stored =>
        /\ call.ret <=> ~InRecord(prevCollisions, call.entity, call.other)
        /\ InRecord(collisions, call.entity, call.other)
        /\ InRecord(frameCollisions, call.entity, call.other)
        /\ \A g \in Entities \ {call.entity} :
               /\ SameEntry(prevCollisions, collisions, g)
               /\ SameEntry(prevFrameCollisions, frameCollisions, g)

C9_Witness ==
    /\ Stored
    /\ ~call.ret
    /\ InRecord(prevCollisions, call.entity, call.other)
    /\ call.entity \notin DOMAIN prevFrameCollisions
    /\ \E g \in Entities \ {call.entity} : g \in DOMAIN prevCollisions

\* the call that stores a new pair
C9_WitnessNew ==
    /\ Stored
    /\ call.ret
    /\ call.entity \in DOMAIN prevCollisions
    /\ Len(collisions[call.entity].others) = 2

\* the contacts of the manifolds whose bodies both have an entity and are
\* both free of the trigger flag
RECURSIVE SumContacts(_, _)
SumContacts(ms, i) ==
    IF i > Len(ms)
    THEN 0
    ELSE SumContacts(ms, i + 1)
         + (IF /\ ms[i].body0 # NoEntity
               /\ ms[i].body1 # NoEntity
               /\ ~noResponse[ms[i].body0]
               /\ ~noResponse[ms[i].body1]
            THEN ms[i].numContacts
            ELSE 0)

NumSystemContacts ==
    Cardinality({i \in 1..Len(fired) :
        fired[i].comp = "system" /\ fired[i].name = "contact"})

ContactFamily == {"contact", "collisionstart", "collisionend"}

\* C11: after a check, no 'contact', 'collisionstart' or 'collisionend' has
\* been fired, on a component or on the system, for a pair of entities one
\* of which is trigger-flagged: neither while the pair's manifold has
\* contacts nor in the check in which the pair has ended.
C11_NoContactEventsForTriggers ==
    Checked =>
        \A i \in 1..Len(fired) :
            fired[i].name \in ContactFamily =>
                /\ ~noResponse[fired[i].target]
                /\ ~noResponse[fired[i].other]

C11_Witness ==
    /\ Checked
    /\ noResponse[1]
    /\ HasContactEvent(1) /\ HasContactEvent(2)
    /\ WasInContact(1, 2) /\ ~InContact(1, 2)
    /\ InRecord(prevCollisions, 2, 1)
    /\ InContact(1, 3)
    /\ InContact(2, 3)
    /\ NumFired("collision", 2, "contact", 3) = 1
    /\ NumSystemContacts = 1

\* q is p seen from the other body: the local points and the world points
\* change places, the normal and the impulse are the same
Mirrored(p, q) ==
    /\ q.localPoint = p.localPointOther
    /\ q.localPointOther = p.localPoint
    /\ q.point = p.pointOther
    /\ q.pointOther = p.point
    /\ q.normal = p.normal
    /\ q.impulse = p.impulse

\* the contact lists of the 'contact' events fired on `entity` with `other`
ContactLists(entity, other) ==
    {fired[i].contacts : i \in {k \in 1..Len(fired) :
        /\ fired[k].comp # "system"
        /\ fired[k].name = "contact"
        /\ fired[k].target = entity
        /\ fired[k].other = other}}

\* a checked manifold with contacts between listening bodies without trigger flag
BothListen(m) ==
    /\ m.body0 # NoEntity
    /\ m.body1 # NoEntity
    /\ m.numContacts > 0
    /\ ~noResponse[m.body0]
    /\ ~noResponse[m.body1]
    /\ HasContactEvent(m.body0)
    /\ HasContactEvent(m.body1)

Returned == queryPc = "returned"

\* how often the last query made the native call `name`
NumNativeCalls(name) ==
    Cardinality({i \in 1..Len(nativeCalls) : nativeCalls[i] = name})

C13_WitnessNoHit ==
    /\ Returned
    /\ rayHits = <<>>
    /\ rayResults = <<>>
    /\ NumNativeCalls("destroy rayCallback") = 1

\* the test shapeTest calls for a shape type
ExpectedTest(type) ==
    CASE type = "capsule" -> "capsuleTest"
      [] type = "cone" -> "coneTest"
      [] type = "cylinder" -> "cylinderTest"
      [] type = "sphere" -> "sphereTest"
      [] OTHER -> "boxTest"

ShapeTestCalled == Returned /\ shapeCalls # <<>> /\ shapeCalls[1].fn = "shapeTest"

\* C14: when shapeTest(shape, position, rotation) has returned, the one test
\* it called is capsuleTest, coneTest, cylinderTest or sphereTest for the
\* type of that name and boxTest for every other type, a missing one
\* included; the test was given the position and rotation shapeTest was
\* given (and shape.axis where it takes an axis), and shapeTest returned
\* what the test returned.
C14_ShapeTestDispatch ==
    ShapeTestCalled =>
        /\ Len(shapeCalls) = 3
        /\ shapeCalls[2].fn = ExpectedTest(shapeArgs.shape.type)
        /\ shapeCalls[2].position = shapeArgs.position
        /\ shapeCalls[2].rotation = shapeArgs.rotation
        /\ shapeCalls[2].fn \in {"capsuleTest", "coneTest", "cylinderTest"} =>
               shapeCalls[2].args[3] = shapeArgs.shape.axis
        /\ shapeCalls[3].fn = "_shapeTest"
        /\ shapeRet = shapeCalls[2].ret

C14_Witness ==
    /\ ShapeTestCalled
    /\ shapeArgs.shape.type = "sphere"
    /\ shapeArgs.rotation = "quat1"
    /\ shapeCalls[2].fn = "sphereTest"
    /\ shapeCalls[2].rotation = "quat1"
    /\ shapeRet = <<"results", <<"btSphereShape", "radius">>,
                    shapeArgs.position, "quat1">>

\* the default branch: a shape without type is tested as a box
C14_WitnessDefault ==
    /\ ShapeTestCalled
    /\ shapeArgs.shape.type = "undefined"
    /\ shapeCalls[2].fn = "boxTest"

\* the native shapes of a test: X-aligned, default (Y-aligned), Z-aligned
NativeShapes(fn) ==
    CASE fn = "capsuleTest" ->
             <<"btCapsuleShapeX", "btCapsuleShape", "btCapsuleShapeZ">>
      [] fn = "coneTest" -> <<"btConeShapeX", "btConeShape", "btConeShapeZ">>
      [] fn = "cylinderTest" ->
             <<"btCylinderShapeX", "btCylinderShape", "btCylinderShapeZ">>

\* 1 for the number 0, 3 for the number 2, 2 for every other value
AxisChoice(axis) ==
    IF axis.t = "number" /\ axis.v = 0 THEN 1
    ELSE IF axis.t = "number" /\ axis.v = 2 THEN 3
    ELSE 2

\* C15: every capsuleTest, coneTest or cylinderTest call, direct or made by
\* shapeTest, has passed to _shapeTest the X-aligned native shape of its
\* kind for axis 0, the Z-aligned one for axis 2, and the default Y-aligned
\* one for every other axis value, undefined and non-numbers included.
C15_AxisSelectsNativeShape ==
    Returned =>
        \A i \in 1..Len(shapeCalls) :
            shapeCalls[i].fn \in {"capsuleTest", "coneTest", "cylinderTest"} =>
                /\ i < Len(shapeCalls)
                /\ shapeCalls[i + 1].fn = "_shapeTest"
                /\ shapeCalls[i + 1].args[1] =
                       NativeShapes(shapeCalls[i].fn)[
                           AxisChoice(shapeCalls[i].args[3])]

C15_Witness ==
    /\ Returned
    /\ shapeCalls # <<>>
    /\ shapeCalls[1].fn = "coneTest"
    /\ shapeArgs.shape.axis = JsNumber(2)
    /\ shapeCalls[2].args[1] = "btConeShapeZ"

\* an axis that is not the number 0 or 2 gives the default shape
C15_WitnessDefault ==
    /\ Returned
    /\ shapeCalls # <<>>
    /\ shapeCalls[1].fn = "cylinderTest"
    /\ shapeArgs.shape.axis = JsDigits(0)
    /\ shapeCalls[2].args[1] = "btCylinderShape"

\* a light that casts shadows and is in the _lightsSet of a camera layer
CastsShadowInLayer(light) ==
    /\ castShadows[light]
    /\ \E l \in DOMAIN lightArgs.cameraLayers :
           light \in lightArgs.cameraLayers[l]

\* the elements of a sequence
Elements(seq) == {seq[i] : i \in DOMAIN seq}

\* collectDirectionalLights has returned
Collected == renderCall.op = "collectDirectionalLights"

\* C16: after collectDirectionalLights, directionalLights is dirLights
\* restricted to the lights that cast shadows and are in the _lightsSet of
\* at least one camera layer: each of them once, in the order of dirLights,
\* whatever it held before; directionalLightsSet has the same lights; and
\* a second call with the same arguments leaves the render action as the
\* first call left it.
C16_CollectDirectionalLights ==
    Collected =>
        /\ renderAction.directionalLights =
               SelectSeq(lightArgs.dirLights, CastsShadowInLayer)
        /\ renderAction.directionalLightsSet =
               Elements(renderAction.directionalLights)
        /\ renderCall.nth = 2 => renderAction = prevRenderAction

\* one call: a light of two layers is taken once, a light that casts no
\* shadow and a light of no layer are left out, the earlier lights are gone
C16_Witness ==
    /\ Collected
    /\ renderCall.nth = 1
    /\ prevRenderAction.directionalLights = <<2, 1>>
    /\ lightArgs.cameraLayers = <<{1, 2}, {1, 2}>>
    /\ lightArgs.dirLights = <<3, 2, 1>>
    /\ castShadows = [l \in Lights |-> l # 1]
    /\ renderAction.directionalLights = <<2>>

\* the second call with the same arguments, two lights in dirLights order
C16_WitnessTwice ==
    /\ Collected
    /\ renderCall.nth = 2
    /\ Len(renderAction.directionalLights) = 2

\* the layer of the render action in the composition (layerIndex from 0)
ActionLayer == layerComposition.layerList[renderAction.layerIndex + 1]

\* the sublayer flag of the render action in the composition
ActionSubLayerEnabled ==
    layerComposition.subLayerEnabled[renderAction.layerIndex + 1]

\* the call has destroyed nothing
NothingDestroyed == Len(destroyed) = renderCall.destroyedBefore

\* C17: isLayerEnabled returns true exactly when the layer at layerIndex
\* of the composition is enabled and the sublayer flag at layerIndex is
\* set; the call changes neither the render action nor the composition
\* and destroys nothing.
C17_IsLayerEnabled ==
    renderCall.op = "isLayerEnabled" =>
        /\ renderCall.ret = TRUE <=>
               (ActionLayer.enabled /\ ActionSubLayerEnabled)
        /\ renderAction = prevRenderAction
        /\ layerComposition = prevLayerComposition
        /\ NothingDestroyed

\* the second layer is enabled and its sublayer flag set, the first is not
C17_Witness ==
    /\ renderCall.op = "isLayerEnabled"
    /\ renderCall.ret = TRUE
    /\ renderAction.layerIndex = 1
    /\ ~layerComposition.layerList[1].enabled
    /\ ~layerComposition.subLayerEnabled[1]

\* the layer is enabled, its sublayer flag is not set
C17_WitnessSubLayerOff ==
    /\ renderCall.op = "isLayerEnabled"
    /\ renderCall.ret = FALSE
    /\ ActionLayer.enabled
    /\ ~ActionSubLayerEnabled

\* the fields reset() is not about
KeptFields ==
    {"layerIndex", "layer", "cameraIndex", "camera", "renderTarget",
     "clearColor", "clearDepth", "clearStencil", "triggerPostprocess",
     "firstCameraUse", "lastCameraUse", "viewBindGroups"}

\* C18: after reset() lightClusters is null, directionalLightsSet and
\* directionalLights are empty, so hasDirectionalShadowLights is false;
\* layerIndex, layer, cameraIndex, camera, renderTarget, the clear flags,
\* triggerPostprocess, firstCameraUse, lastCameraUse and viewBindGroups are
\* what they were before the call, and nothing is destroyed.
C18_ResetClearsOnlyLights ==
    renderCall.op = "reset" =>
        /\ renderAction.lightClusters = "null"
        /\ renderAction.directionalLightsSet = {}
        /\ renderAction.directionalLights = <<>>
        /\ ~HasDirectionalShadowLights(renderAction)
        /\ \A f \in KeptFields : renderAction[f] = prevRenderAction[f]
        /\ NothingDestroyed

\* reset() of a render action that had clusters, two lights, two bind
\* groups and its other fields filled in
C18_Witness ==
    /\ renderCall.op = "reset"
    /\ renderCall.nth = 1
    /\ prevRenderAction.lightClusters = "worldClusters"
    /\ prevRenderAction.directionalLights = <<2, 1>>
    /\ HasDirectionalShadowLights(prevRenderAction)
    /\ renderAction.viewBindGroups = <<1, 2>>
    /\ renderAction.layerIndex = 1
    /\ renderAction.clearColor

\* the positions in the destroy log of the destroy() calls on a resource
DestroyedAt(kind, bg) ==
    {i \in DOMAIN destroyed : destroyed[i] = DestroyCall(kind, bg)}

\* the uniform buffer of bg, then bg, have been destroyed once each
DestroyedInOrder(bg) ==
    /\ Cardinality(DestroyedAt("defaultUniformBuffer", bg)) = 1
    /\ Cardinality(DestroyedAt("bindGroup", bg)) = 1
    /\ \A i \in DestroyedAt("defaultUniformBuffer", bg) :
       \A j \in DestroyedAt("bindGroup", bg) :
           /\ i < j
           /\ i > renderCall.destroyedBefore

\* C19: destroy() destroys, for every bind group of viewBindGroups, its
\* defaultUniformBuffer and then the bind group, each exactly once, and
\* nothing else; viewBindGroups is empty afterwards; a second destroy()
\* destroys nothing.
C19_DestroyReleasesBindGroups ==
    renderCall.op = "destroy" =>
        /\ renderAction.viewBindGroups = <<>>
        /\ \A bg \in Elements(prevRenderAction.viewBindGroups) :
               DestroyedInOrder(bg)
        /\ Len(destroyed) = renderCall.destroyedBefore
                               + 2 * Len(prevRenderAction.viewBindGroups)
        /\ renderCall.nth = 2 => NothingDestroyed

\* the first destroy() of a render action with two bind groups
C19_Witness ==
    /\ renderCall.op = "destroy"
    /\ renderCall.nth = 1
    /\ prevRenderAction.viewBindGroups = <<2, 1>>
    /\ Len(destroyed) = 4

\* the second destroy() in a row, after one that destroyed two bind groups
C19_WitnessTwice ==
    /\ renderCall.op = "destroy"
    /\ renderCall.nth = 2
    /\ Len(destroyed) = 4
====
